---- MODULE Spec2Model ----
(***************************************************************************)
(* Model of the QR code generator HTTP service (TypeScript server):        *)
(* the POST /generate-qr and GET /qr handlers, their validation of the raw *)
(* request fields, the call to the external QR renderer and the response   *)
(* each path writes.                                                       *)
(*                                                                         *)
(* JavaScript values are records tagged by t: "undef", "null", "bool",     *)
(* "str", "num", "nan", "inf".  A string is a sequence of one-character    *)
(* strings, so that Number(), parseInt() and URL parsing are computed      *)
(* character by character.  A finite number is num/den with den a power    *)
(* of ten, in lowest terms.                                                *)
(***************************************************************************)
EXTENDS Integers, Sequences, FiniteSets, TLC

(***************************************************************************)
(* JavaScript values                                                       *)
(***************************************************************************)
\* No value: no request, no response, no call.
None == [none |-> TRUE]

Undefined == [t |-> "undef"]
Null == [t |-> "null"]
NaN == [t |-> "nan"]
Bool(b) == [t |-> "bool", b |-> b]
Str(s) == [t |-> "str", s |-> s]
Inf(neg) == [t |-> "inf", neg |-> neg]

RECURSIVE Reduce(_, _)
Reduce(n, d) ==
    IF d > 1 /\ n % 10 = 0 THEN Reduce(n \div 10, d \div 10)
    ELSE [t |-> "num", num |-> n, den |-> d]

Num(n) == [t |-> "num", num |-> n, den |-> 1]
Frac(n, d) == Reduce(n, d)

RECURSIVE Pow(_, _)
Pow(b, k) == IF k = 0 THEN 1 ELSE b * Pow(b, k - 1)

\* ToBoolean: undefined, null, the boolean false, "", 0 and NaN are falsy.
Truthy(v) ==
    CASE v.t = "undef" -> FALSE
      [] v.t = "null" -> FALSE
      [] v.t = "nan" -> FALSE
      [] v.t = "bool" -> v.b
      [] v.t = "str" -> v.s # <<>>
      [] v.t = "num" -> v.num # 0
      [] OTHER -> TRUE

isNaN(x) == x.t = "nan"

\* x < c and x > c for a number x and an integer c; neither holds when x is NaN.
LessThan(x, c) ==
    CASE x.t = "num" -> x.num < c * x.den
      [] x.t = "inf" -> x.neg
      [] OTHER -> FALSE

GreaterThan(x, c) ==
    CASE x.t = "num" -> x.num > c * x.den
      [] x.t = "inf" -> ~x.neg
      [] OTHER -> FALSE

IsInteger(x) == x.t = "num" /\ x.den = 1

(***************************************************************************)
(* Characters and strings                                                  *)
(***************************************************************************)
Digits == {"0", "1", "2", "3", "4", "5", "6", "7", "8", "9"}
HexLetters == {"a", "b", "c", "d", "e", "f", "A", "B", "C", "D", "E", "F"}
Lower == {"a", "b", "c", "d", "e", "f", "g", "h", "i", "j", "k", "l", "m",
          "n", "o", "p", "q", "r", "s", "t", "u", "v", "w", "x", "y", "z"}
Upper == {"A", "B", "C", "D", "E", "F", "G", "H", "I", "J", "K", "L", "M",
          "N", "O", "P", "Q", "R", "S", "T", "U", "V", "W", "X", "Y", "Z"}
Alpha == Lower \cup Upper
WhiteSpace == {" ", "\t", "\n", "\r"}

DigitVal(c) ==
    CASE c = "0" -> 0 [] c = "1" -> 1 [] c = "2" -> 2 [] c = "3" -> 3
      [] c = "4" -> 4 [] c = "5" -> 5 [] c = "6" -> 6 [] c = "7" -> 7
      [] c = "8" -> 8 [] c = "9" -> 9
      [] c \in {"a", "A"} -> 10 [] c \in {"b", "B"} -> 11
      [] c \in {"c", "C"} -> 12 [] c \in {"d", "D"} -> 13
      [] c \in {"e", "E"} -> 14 [] c \in {"f", "F"} -> 15

Drop(s, k) == SubSeq(s, k + 1, Len(s))
Take(s, k) == SubSeq(s, 1, k)

AllIn(s, S) == \A i \in 1..Len(s) : s[i] \in S

\* Index of the first character of s that is in S, or Len(s) + 1.
FirstIn(s, S) ==
    IF \E i \in 1..Len(s) : s[i] \in S
    THEN CHOOSE i \in 1..Len(s) : s[i] \in S /\ \A j \in 1..(i - 1) : s[j] \notin S
    ELSE Len(s) + 1

\* Index of the last character of s that is in S, or 0.
LastIn(s, S) ==
    IF \E i \in 1..Len(s) : s[i] \in S
    THEN CHOOSE i \in 1..Len(s) : s[i] \in S /\ \A j \in (i + 1)..Len(s) : s[j] \notin S
    ELSE 0

\* Index of the first character of s that is not in S, or Len(s) + 1.
FirstNotIn(s, S) ==
    IF \E i \in 1..Len(s) : s[i] \notin S
    THEN CHOOSE i \in 1..Len(s) : s[i] \notin S /\ \A j \in 1..(i - 1) : s[j] \in S
    ELSE Len(s) + 1

\* Index of the last character of s that is not in S, or 0.
LastNotIn(s, S) ==
    IF \E i \in 1..Len(s) : s[i] \notin S
    THEN CHOOSE i \in 1..Len(s) : s[i] \notin S /\ \A j \in (i + 1)..Len(s) : s[j] \in S
    ELSE 0

TrimStart(s) == Drop(s, FirstNotIn(s, WhiteSpace) - 1)
TrimEnd(s) == Take(s, LastNotIn(s, WhiteSpace))
Trim(s) == TrimEnd(TrimStart(s))

\* Value of a non-empty digit string in the given radix.
RECURSIVE RadixVal(_, _)
RadixVal(s, radix) ==
    IF s = <<>> THEN 0
    ELSE RadixVal(Take(s, Len(s) - 1), radix) * radix + DigitVal(s[Len(s)])

RadixDigits(radix) ==
    CASE radix = 2 -> {"0", "1"}
      [] radix = 8 -> {"0", "1", "2", "3", "4", "5", "6", "7"}
      [] radix = 10 -> Digits
      [] radix = 16 -> Digits \cup HexLetters


LowerSeq == <<"a", "b", "c", "d", "e", "f", "g", "h", "i", "j", "k", "l", "m",
              "n", "o", "p", "q", "r", "s", "t", "u", "v", "w", "x", "y", "z">>
UpperSeq == <<"A", "B", "C", "D", "E", "F", "G", "H", "I", "J", "K", "L", "M",
              "N", "O", "P", "Q", "R", "S", "T", "U", "V", "W", "X", "Y", "Z">>
ToLowerChar(c) ==
    IF c \in Upper THEN LowerSeq[CHOOSE i \in 1..Len(UpperSeq) : UpperSeq[i] = c] ELSE c
ToLowerCase(s) == [i \in 1..Len(s) |-> ToLowerChar(s[i])]

(***************************************************************************)
(* Number(value): ECMAScript ToNumber.  A string is trimmed; the empty     *)
(* string is 0; 0x/0o/0b literals are unsigned; a decimal literal has an   *)
(* optional sign, fraction and exponent; anything else is NaN.             *)
(***************************************************************************)
Negate(x) ==
    CASE x.t = "num" -> [x EXCEPT !.num = 0 - x.num]
      [] x.t = "inf" -> [x EXCEPT !.neg = ~x.neg]
      [] OTHER -> x

RadixLiteral(digits, radix) ==
    IF digits # <<>> /\ AllIn(digits, RadixDigits(radix))
    THEN Num(RadixVal(digits, radix))
    ELSE NaN

\* StrUnsignedDecimalLiteral: Infinity, or digits [. digits] [e [sign] digits].
UnsignedDecimal(body) ==
    LET ePos == FirstIn(body, {"e", "E"})
        hasExp == ePos <= Len(body)
        mant == Take(body, ePos - 1)
        expPart == Drop(body, ePos)
        expNeg == expPart # <<>> /\ expPart[1] = "-"
        expDigits == IF expPart # <<>> /\ expPart[1] \in {"+", "-"}
                     THEN Drop(expPart, 1) ELSE expPart
        dot == FirstIn(mant, {"."})
        ip == Take(mant, dot - 1)
        fp == Drop(mant, dot)
        expOk == ~hasExp \/ (expDigits # <<>> /\ AllIn(expDigits, Digits))
        mantOk == AllIn(ip, Digits) /\ AllIn(fp, Digits) /\ Len(ip) + Len(fp) >= 1
        exp == IF hasExp THEN (IF expNeg THEN 0 - RadixVal(expDigits, 10)
                               ELSE RadixVal(expDigits, 10))
               ELSE 0
        k == exp - Len(fp)
        m == RadixVal(ip \o fp, 10)
    IN  IF body = <<"I", "n", "f", "i", "n", "i", "t", "y">> THEN Inf(FALSE)
        ELSE IF ~(mantOk /\ expOk) THEN NaN
        ELSE IF k >= 0 THEN Num(m * Pow(10, k))
        ELSE Frac(m, Pow(10, 0 - k))

StringToNumber(s) ==
    LET t == Trim(s)
    IN  IF t = <<>> THEN Num(0)
        ELSE IF Len(t) >= 2 /\ t[1] = "0" /\ t[2] \in {"x", "X"}
        THEN RadixLiteral(Drop(t, 2), 16)
        ELSE IF Len(t) >= 2 /\ t[1] = "0" /\ t[2] \in {"o", "O"}
        THEN RadixLiteral(Drop(t, 2), 8)
        ELSE IF Len(t) >= 2 /\ t[1] = "0" /\ t[2] \in {"b", "B"}
        THEN RadixLiteral(Drop(t, 2), 2)
        ELSE IF t[1] = "-" THEN Negate(UnsignedDecimal(Drop(t, 1)))
        ELSE IF t[1] = "+" THEN UnsignedDecimal(Drop(t, 1))
        ELSE UnsignedDecimal(t)

Number(v) ==
    CASE v.t = "undef" -> NaN
      [] v.t = "null" -> Num(0)
      [] v.t = "bool" -> IF v.b THEN Num(1) ELSE Num(0)
      [] v.t = "str" -> StringToNumber(v.s)
      [] OTHER -> v

(***************************************************************************)
(* parseInt(string, radix): leading white space is skipped, an optional    *)
(* sign is read, then the longest prefix of digits of the radix; whatever  *)
(* follows is ignored.  No digit at all gives NaN.                         *)
(***************************************************************************)
parseInt(v, radix) ==
    LET t == TrimStart(v.s)
        neg == t # <<>> /\ t[1] = "-"
        u == IF t # <<>> /\ t[1] \in {"+", "-"} THEN Drop(t, 1) ELSE t
        w == IF radix = 16 /\ Len(u) >= 2 /\ u[1] = "0" /\ u[2] \in {"x", "X"}
             THEN Drop(u, 2) ELSE u
        z == Take(w, FirstNotIn(w, RadixDigits(radix)) - 1)
    IN  IF z = <<>> THEN NaN
        ELSE IF neg THEN Num(0 - RadixVal(z, radix))
        ELSE Num(RadixVal(z, radix))

(***************************************************************************)
(* new URL(input), without a base: the WHATWG basic URL parser.            *)
(* The input needs a scheme (a letter, then letters, digits, + - .,        *)
(* closed by ":").  For a special scheme other than file the slashes       *)
(* after the colon are skipped and a non-empty host must follow.  For any  *)
(* other scheme the rest is an authority when it starts with "//" and an   *)
(* opaque or absolute path otherwise, and a path always parses.  (Hosts    *)
(* that end in a number are IPv4 addresses with checks of their own; the   *)
(* requests below use none.)                                               *)
(***************************************************************************)
SchemeChars == Alpha \cup Digits \cup {"+", "-", "."}
SpecialSchemes ==
    { <<"h", "t", "t", "p">>, <<"h", "t", "t", "p", "s">>, <<"f", "t", "p">>,
      <<"w", "s">>, <<"w", "s", "s">> }
FileScheme == <<"f", "i", "l", "e">>
ForbiddenHost == {" ", "<", ">", "[", "]", "^", "|", "%"}
Slashes == {"/", "\\"}

\* The host and port of an authority (userinfo dropped at the last "@").
AuthorityOf(rest, ends) ==
    LET authority == Take(rest, FirstIn(rest, ends) - 1)
        hostport == Drop(authority, LastIn(authority, {"@"}))
        p == LastIn(hostport, {":"})
        port == IF p > 0 THEN Drop(hostport, p) ELSE <<>>
    IN  [host |-> IF p > 0 THEN Take(hostport, p - 1) ELSE hostport,
         portOk |-> AllIn(port, Digits) /\ Len(port) <= 5
                    /\ RadixVal(port, 10) <= 65535]

NoURL == [ok |-> FALSE, scheme |-> <<>>, hasHost |-> FALSE]

ParseURL(s) ==
    LET t == Trim(s)
        colon == FirstIn(t, {":"})
        scheme == ToLowerCase(Take(t, colon - 1))
        rest == Drop(t, colon)
    IN  IF ~(colon <= Len(t) /\ colon > 1 /\ t[1] \in Alpha
             /\ AllIn(Take(t, colon - 1), SchemeChars))
        THEN NoURL
        ELSE IF scheme \in SpecialSchemes
        THEN LET a == AuthorityOf(Drop(rest, FirstNotIn(rest, Slashes) - 1),
                                  {"/", "\\", "?", "#"})
             IN  IF a.host # <<>> /\ a.portOk
                    /\ ~(\E i \in 1..Len(a.host) : a.host[i] \in ForbiddenHost)
                 THEN [ok |-> TRUE, scheme |-> scheme, hasHost |-> TRUE]
                 ELSE NoURL
        ELSE IF scheme = FileScheme
        THEN [ok |-> TRUE, scheme |-> scheme, hasHost |-> FALSE]
        ELSE IF Len(rest) >= 2 /\ rest[1] = "/" /\ rest[2] = "/"
        THEN LET a == AuthorityOf(Drop(rest, 2), {"/", "?", "#"})
             IN  IF a.portOk /\ ~(\E i \in 1..Len(a.host) : a.host[i] \in ForbiddenHost)
                 THEN [ok |-> TRUE, scheme |-> scheme, hasHost |-> a.host # <<>>]
                 ELSE NoURL
        ELSE [ok |-> TRUE, scheme |-> scheme, hasHost |-> FALSE]


(***************************************************************************)
(* Requests.  express.json() hands the handler the parsed body, whose      *)
(* fields are JSON values or absent; a GET query parameter is a string or  *)
(* absent.                                                                 *)
(***************************************************************************)
png == <<"p", "n", "g">>
svg == <<"s", "v", "g">>
TrueText == <<"t", "r", "u", "e">>
FalseText == <<"f", "a", "l", "s", "e">>

ExampleUrl == <<"h", "t", "t", "p", ":", "/", "/", "a", ".", "b">>
UrlTexts ==
    { <<>>, ExampleUrl,
      <<"h", "t", "t", "p", ":", "/", "/">>,
      <<"m", "a", "i", "l", "t", "o", ":", "a", "@", "b">>,
      <<"w", "e", "b", "+", "q", "r", "c", "o", "d", "e", ":">>,
      <<"n", "o", "t", "-", "a", "-", "u", "r", "l">>,
      <<"/", "/", "a", ".", "b">> }

FormatTexts == { png, svg, <<"P", "N", "G">>, <<"S", "v", "g">>, <<"g", "i", "f">> }

SizeTexts ==
    { <<>>, <<"-", "5">>, <<"0", "x", "6", "4">>,
      <<"2", "0", "0">>, <<"1", "0", "0">>, <<"1", "0", "0", "0">>,
      <<"9", "9">>, <<"1", "0", "0", "1">>,
      <<"1", "5", "0", ".", "7">>,
      <<"1", "0", "0", "0", ".", "5">>,
      <<"1", "e", "3">>, <<"2", "0", "0", "p", "x">>,
      <<" ", "3", "0", "0">>, <<"a", "b", "c">> }

PostUrls == {Undefined, Null, Num(5)} \cup {Str(u) : u \in UrlTexts}
PostFormats == {Undefined, Null} \cup {Str(f) : f \in FormatTexts}
PostSizes ==
    {Undefined, Null, Num(100), Num(1000), Num(99), Num(1001), Frac(1505, 10)}
    \cup {Str(z) : z \in SizeTexts}
PostTransparents ==
    {Undefined, Bool(TRUE), Bool(FALSE), Num(1), Str(TrueText), Str(FalseText),
     Str(<<"y", "e", "s">>)}

GetUrls == {Undefined} \cup {Str(u) : u \in UrlTexts}
GetFormats == {Undefined} \cup {Str(f) : f \in FormatTexts}
GetSizes == {Undefined} \cup {Str(z) : z \in SizeTexts}
GetTransparents == {Undefined, Str(TrueText), Str(FalseText), Str(<<"y", "e", "s">>)}

PostBodies ==
    [url : PostUrls, format : PostFormats, size : PostSizes,
     transparentBackground : PostTransparents]
GetQueries ==
    [url : GetUrls, format : GetFormats, size : GetSizes, transparent : GetTransparents]


(***************************************************************************)
(* Steps shared by the two handlers                                        *)
(***************************************************************************)
\* The default of a destructuring pattern applies to undefined only.
Default(v, d) == IF v.t = "undef" THEN d ELSE v

\* if (!url)
UrlMissing(url) == ~Truthy(url)

\* A faulty variant: the url check is skipped for any string.
UrlParsesAnyText(url) == url.t = "str"

\* try { new URL(url) } catch: the argument is converted to a string first,
\* and the string of a number, a boolean or null has no scheme.
UrlParses(url) == url.t = "str" /\ ParseURL(url.s).ok

\* A faulty variant: the format is compared without regard to case.
FormatInvalidIgnoringCase(format) ==
    ~(format.t = "str" /\ ToLowerCase(format.s) \in {png, svg})

\* format !== "png" && format !== "svg"
FormatInvalid(format) == format # Str(png) /\ format # Str(svg)

MinSize == 100
MaxSize == 1000
DefaultSize == 200
Margin == 2

\* isNaN(sizeNum) || sizeNum < 100 || sizeNum > 1000
SizeInvalid(sizeNum) ==
    isNaN(sizeNum) \/ LessThan(sizeNum, MinSize) \/ GreaterThan(sizeNum, MaxSize)

\* const options: QRCodeOptions = { width, margin, color: { dark, light } }
Options(sizeNum, transparentBackground) ==
    [width |-> sizeNum, margin |-> Margin, dark |-> "#000000",
     light |-> IF Truthy(transparentBackground) THEN "#FFFFFF00" ELSE "#FFFFFF"]

\* res.status(code).json(body)
Json(code, body) == [status |-> code, ctype |-> "application/json", body |-> body]
\* res.setHeader("Content-Type", ctype); res.send(body)
Send(ctype, body) == [status |-> 200, ctype |-> ctype, body |-> body]

ErrorBody(error, message) == [error |-> error, message |-> message]

InvalidUrlResponse ==
    Json(400, ErrorBody("Invalid URL format", "Please provide a valid URL"))
InvalidFormatResponse ==
    Json(400, ErrorBody("Invalid format", "Format must be either \"png\" or \"svg\""))
InvalidSizeResponse ==
    Json(400, ErrorBody("Invalid size", "Size must be a number between 100 and 1000"))

\* A faulty variant: the message of the caught error is sent to the client.
RenderFailureLeaks(cause) == Json(500, ErrorBody("Internal server error", cause))

\* catch (error) { console.error(..., error); res.status(500).json(...) }
RenderFailureResponse(cause) ==
    Json(500, ErrorBody("Internal server error", "Failed to generate QR code"))

\* A step of a handler ends in a response or at the await on the renderer.
Reply(response) == [kind |-> "reply", res |-> response]
Await(op, text, options, frame) ==
    [kind |-> "await", call |-> [op |-> op, text |-> text, options |-> options],
     frame |-> frame]

\* What the renderer resolves to is a function of the call alone.
Rendered(c) == [by |-> c.op, text |-> c.text, options |-> c.options]

(***************************************************************************)
(* POST /generate-qr                                                       *)
(***************************************************************************)
PostMissingUrlResponse ==
    Json(400, ErrorBody("URL is required", "Please provide a URL to generate QR code"))

PostSizeNum(size) == Number(size)

\* A faulty variant: the size is checked before the format.
PostValidateSizeFirst(url, format, size) ==
    IF UrlMissing(url) THEN PostMissingUrlResponse
    ELSE IF ~UrlParses(url) THEN InvalidUrlResponse
    ELSE IF SizeInvalid(PostSizeNum(size)) THEN InvalidSizeResponse
    ELSE IF FormatInvalid(format) THEN InvalidFormatResponse
    ELSE None

\* The four checks in the order of the code: the 400 response of the first
\* one that fails, or None when all pass.
PostValidate(url, format, size) ==
    IF UrlMissing(url) THEN PostMissingUrlResponse
    ELSE IF ~UrlParses(url) THEN InvalidUrlResponse
    ELSE IF FormatInvalid(format) THEN InvalidFormatResponse
    ELSE IF SizeInvalid(PostSizeNum(size)) THEN InvalidSizeResponse
    ELSE None

\* The handler from its entry to the first response or to the await.
PostHandler(body) ==
    LET url == body.url
        format == Default(body.format, Str(png))
        size == Default(body.size, Num(DefaultSize))
        transparentBackground == Default(body.transparentBackground, Bool(FALSE))
        sizeNum == PostSizeNum(size)
        options == Options(sizeNum, transparentBackground)
        frame == [url |-> url, format |-> format, sizeNum |-> sizeNum,
                  transparentBackground |-> transparentBackground]
        invalid == PostValidate(url, format, size)
    IN  IF invalid # None THEN Reply(invalid)
        ELSE IF format = Str(svg)
        THEN Await("toString", url, options @@ [type |-> "svg"], frame)
        ELSE Await("toDataURL", url, options, frame)

\* A faulty variant: the svg markup is wrapped in the JSON object like the data URI.
PostRenderedAlwaysJson(frame, value) ==
    Json(200, [success |-> TRUE, url |-> frame.url, qrCode |-> value,
               format |-> frame.format, size |-> frame.sizeNum,
               transparentBackground |-> frame.transparentBackground])

\* The handler after the renderer resolved to value.
PostRendered(frame, value) ==
    IF frame.format = Str(svg)
    THEN Send("image/svg+xml", value)
    ELSE Json(200, [success |-> TRUE, url |-> frame.url, qrCode |-> value,
                    format |-> frame.format, size |-> frame.sizeNum,
                    transparentBackground |-> frame.transparentBackground])

(***************************************************************************)
(* GET /qr                                                                 *)
(***************************************************************************)
GetMissingUrlResponse ==
    Json(400, ErrorBody("URL parameter is required",
        "Usage: /qr?url=https://example.com&format=png&size=200&transparent=false"))

GetSizeNum(size) == parseInt(size, 10)

GetTransparentBackground(transparent) == Bool(transparent = Str(TrueText))

GetValidate(url, format, size) ==
    IF UrlMissing(url) THEN GetMissingUrlResponse
    ELSE IF ~UrlParses(url) THEN InvalidUrlResponse
    ELSE IF FormatInvalid(format) THEN InvalidFormatResponse
    ELSE IF SizeInvalid(GetSizeNum(size)) THEN InvalidSizeResponse
    ELSE None

\* The handler from its entry to the first response or to the await.
GetHandler(query) ==
    LET url == query.url
        format == Default(query.format, Str(png))
        size == Default(query.size, Str(<<"2", "0", "0">>))
        transparent == Default(query.transparent, Str(FalseText))
        sizeNum == GetSizeNum(size)
        transparentBackground == GetTransparentBackground(transparent)
        options == Options(sizeNum, transparentBackground)
        frame == [url |-> url, format |-> format, sizeNum |-> sizeNum,
                  transparentBackground |-> transparentBackground]
        invalid == GetValidate(url, format, size)
    IN  IF invalid # None THEN Reply(invalid)
        ELSE IF format = Str(svg)
        THEN Await("toString", url, options @@ [type |-> "svg"], frame)
        ELSE Await("toBuffer", url, options, frame)

GetRendered(frame, value) ==
    IF frame.format = Str(svg)
    THEN Send("image/svg+xml", value)
    ELSE Send("image/png", value)


(***************************************************************************)
(* The server.  Each connection carries one request at a time; a handler   *)
(* runs without interruption from its entry to its first response or to    *)
(* its await on the renderer, and resumes when the renderer settles.       *)
(* All handler state is local to the call (const locals), so the           *)
(* variables are indexed by connection and nothing is shared.              *)
(***************************************************************************)
VARIABLES
    pc,      \* per connection: "idle", "awaiting" (at the await) or "done"
    req,     \* the request being served: endpoint and raw fields
    frame,   \* the handler's locals that live across the await
    call,    \* the renderer call in flight or made
    calls,   \* renderer calls made for the request
    res,     \* the response written
    writes,  \* responses written for the request
    log      \* what console.error received

vars == <<pc, req, frame, call, calls, res, writes, log>>

NumConns == 2
Conns == 1..NumConns

\* Reasons the renderer rejects: the data does not fit a QR symbol, or any other fault.
RenderErrors == {"The amount of data is too big to be stored in a QR Code", "EFAULT"}

Init ==
    /\ pc = [c \in Conns |-> "idle"]
    /\ req = [c \in Conns |-> None]
    /\ frame = [c \in Conns |-> None]
    /\ call = [c \in Conns |-> None]
    /\ calls = [c \in Conns |-> 0]
    /\ res = [c \in Conns |-> None]
    /\ writes = [c \in Conns |-> 0]
    /\ log = [c \in Conns |-> None]

\* Express routes the request to its handler, which runs to its first
\* response or to the await.
Enter(c, request, step) ==
    /\ req' = [req EXCEPT ![c] = request]
    /\ IF step.kind = "reply"
       THEN /\ pc' = [pc EXCEPT ![c] = "done"]
            /\ res' = [res EXCEPT ![c] = step.res]
            /\ writes' = [writes EXCEPT ![c] = @ + 1]
            /\ UNCHANGED <<frame, call, calls>>
       ELSE /\ pc' = [pc EXCEPT ![c] = "awaiting"]
            /\ frame' = [frame EXCEPT ![c] = step.frame]
            /\ call' = [call EXCEPT ![c] = step.call]
            /\ calls' = [calls EXCEPT ![c] = @ + 1]
            /\ UNCHANGED <<res, writes>>
    /\ UNCHANGED log

PostGenerateQr(c) ==
    /\ pc[c] = "idle"
    /\ \E body \in PostBodies :
           Enter(c, [endpoint |-> "POST", body |-> body], PostHandler(body))

GetQr(c) ==
    /\ pc[c] = "idle"
    /\ \E query \in GetQueries :
           Enter(c, [endpoint |-> "GET", query |-> query], GetHandler(query))

\* The renderer's promise resolves: the handler resumes after the await.
RenderResolve(c) ==
    /\ pc[c] = "awaiting"
    /\ res' = [res EXCEPT ![c] =
                  IF req[c].endpoint = "POST"
                  THEN PostRendered(frame[c], Rendered(call[c]))
                  ELSE GetRendered(frame[c], Rendered(call[c]))]
    /\ writes' = [writes EXCEPT ![c] = @ + 1]
    /\ pc' = [pc EXCEPT ![c] = "done"]
    /\ UNCHANGED <<req, frame, call, calls, log>>

\* A faulty variant: no catch block, so the rejection ends the handler
\* with the error logged and no response written.
RenderRejectUnanswered(c) ==
    \E cause \in RenderErrors :
        /\ pc[c] = "awaiting"
        /\ log' = [log EXCEPT ![c] = [error |-> cause]]
        /\ pc' = [pc EXCEPT ![c] = "done"]
        /\ UNCHANGED <<req, frame, call, calls, res, writes>>

\* The renderer's promise rejects: the await throws into the catch block.
RenderReject(c) ==
    \E cause \in RenderErrors :
        /\ pc[c] = "awaiting"
        /\ log' = [log EXCEPT ![c] = [error |-> cause]]
        /\ res' = [res EXCEPT ![c] = RenderFailureResponse(cause)]
        /\ writes' = [writes EXCEPT ![c] = @ + 1]
        /\ pc' = [pc EXCEPT ![c] = "done"]
        /\ UNCHANGED <<req, frame, call, calls>>

\* The response is out; the connection is free for its next request.
Close(c) ==
    /\ pc[c] = "done"
    /\ pc' = [pc EXCEPT ![c] = "idle"]
    /\ req' = [req EXCEPT ![c] = None]
    /\ frame' = [frame EXCEPT ![c] = None]
    /\ call' = [call EXCEPT ![c] = None]
    /\ calls' = [calls EXCEPT ![c] = 0]
    /\ res' = [res EXCEPT ![c] = None]
    /\ writes' = [writes EXCEPT ![c] = 0]
    /\ log' = [log EXCEPT ![c] = None]

\* No other connection has a request in progress.
Alone(c) == \A d \in Conns \ {c} : pc[d] = "idle"

(***************************************************************************)
(* Spec: every request over the whole input domain, requests served one    *)
(* at a time (the handlers share no state, so what one request is answered *)
(* does not depend on the others).                                         *)
(***************************************************************************)
Next ==
    \E c \in Conns :
        \/ Alone(c) /\ PostGenerateQr(c)
        \/ Alone(c) /\ GetQr(c)
        \/ RenderResolve(c)
        \/ RenderReject(c)
        \/ Close(c)

Spec == Init /\ [][Next]_vars

(***************************************************************************)
(* SpecConcurrent: requests on different connections are in progress at    *)
(* the same time and interleave at the await.  Node runs one handler step  *)
(* at a time, so a step of one connection is atomic; between the steps of  *)
(* one request, steps of the others may run.  The requests are drawn from  *)
(* a small set that takes every path of the two handlers.  A renderer call *)
(* settles: its promise resolves or rejects, and the handler then resumes. *)
(***************************************************************************)
ConcurrentBodies ==
    { [url |-> Undefined, format |-> Undefined, size |-> Undefined,
       transparentBackground |-> Undefined],
      [url |-> Str(ExampleUrl), format |-> Str(<<"g", "i", "f">>), size |-> Undefined,
       transparentBackground |-> Undefined],
      [url |-> Str(ExampleUrl), format |-> Undefined, size |-> Undefined,
       transparentBackground |-> Undefined],
      [url |-> Str(ExampleUrl), format |-> Str(svg), size |-> Num(1000),
       transparentBackground |-> Bool(TRUE)] }

ConcurrentQueries ==
    { [url |-> Str(<<"n", "o", "t", "-", "a", "-", "u", "r", "l">>), format |-> Undefined,
       size |-> Undefined, transparent |-> Undefined],
      [url |-> Str(ExampleUrl), format |-> Undefined, size |-> Str(<<"9", "9">>),
       transparent |-> Undefined],
      [url |-> Str(ExampleUrl), format |-> Undefined, size |-> Undefined,
       transparent |-> Undefined],
      [url |-> Str(ExampleUrl), format |-> Str(svg), size |-> Str(<<"1", "0", "0">>),
       transparent |-> Str(TrueText)] }

PostGenerateQrConcurrent(c) ==
    /\ pc[c] = "idle"
    /\ \E body \in ConcurrentBodies :
           Enter(c, [endpoint |-> "POST", body |-> body], PostHandler(body))

GetQrConcurrent(c) ==
    /\ pc[c] = "idle"
    /\ \E query \in ConcurrentQueries :
           Enter(c, [endpoint |-> "GET", query |-> query], GetHandler(query))

\* The renderer call of c settles and the handler resumes.
RenderSettles(c) == RenderResolve(c) \/ RenderReject(c)

NextConcurrent ==
    \E c \in Conns :
        \/ PostGenerateQrConcurrent(c)
        \/ GetQrConcurrent(c)
        \/ RenderResolve(c)
        \/ RenderReject(c)
        \/ Close(c)

SpecConcurrent ==
    /\ Init
    /\ [][NextConcurrent]_vars
    /\ \A c \in Conns : WF_vars(RenderSettles(c))


(***************************************************************************)
(* What a request carried and how it was answered                          *)
(***************************************************************************)
Active(c) == pc[c] # "idle"
Answered(c) == pc[c] = "done"
IsPost(c) == req[c].endpoint = "POST"
IsGet(c) == req[c].endpoint = "GET"

\* The raw fields of the request, as sent.
RawUrl(c) == IF IsPost(c) THEN req[c].body.url ELSE req[c].query.url
RawFormat(c) == IF IsPost(c) THEN req[c].body.format ELSE req[c].query.format
RawSize(c) == IF IsPost(c) THEN req[c].body.size ELSE req[c].query.size
RawTransparent(c) ==
    IF IsPost(c) THEN req[c].body.transparentBackground ELSE req[c].query.transparent

\* The request was answered 400 with this error.
Rejected(c, error) ==
    /\ Answered(c)
    /\ res[c].status = 400
    /\ res[c].ctype = "application/json"
    /\ res[c].body.error = error
    /\ calls[c] = 0

\* The request passed all checks: it reached the renderer.
Accepted(c) == calls[c] > 0

MissingUrlError(c) == IF IsPost(c) THEN "URL is required" ELSE "URL parameter is required"

\* The checks as the specification words them.
UrlAbsentOrEmpty(c) == RawUrl(c) = Undefined \/ RawUrl(c) = Str(<<>>)
UrlOk(c) == RawUrl(c).t = "str" /\ RawUrl(c).s # <<>> /\ ParseURL(RawUrl(c).s).ok
FormatRecognized(c) == RawFormat(c) \in {Undefined, Str(png), Str(svg)}
\* The number a size stands for: itself, or the value of the numeric string.
SizeValue(c) == IF RawSize(c) = Undefined THEN Num(DefaultSize) ELSE Number(RawSize(c))
SizeInRange(c) ==
    /\ SizeValue(c).t = "num"
    /\ SizeValue(c).num >= MinSize * SizeValue(c).den
    /\ SizeValue(c).num <= MaxSize * SizeValue(c).den
\* The size check as each handler computes it.
SizePasses(c) ==
    IF IsPost(c) THEN ~SizeInvalid(PostSizeNum(Default(RawSize(c), Num(DefaultSize))))
    ELSE ~SizeInvalid(GetSizeNum(Default(RawSize(c), Str(<<"2", "0", "0">>))))

(***************************************************************************)
(* C1: on both endpoints the checks run in the order url-present,          *)
(* url-parses, format-recognized, size-in-range and the 400 response is    *)
(* that of the first check that fails; a request whose url is absent or    *)
(* empty gets the missing-URL error whatever its format and size.          *)
(***************************************************************************)
C1_FirstFailureWins ==
    \A c \in Conns : Active(c) =>
        /\ UrlAbsentOrEmpty(c) => Rejected(c, MissingUrlError(c))
        /\ ~Truthy(RawUrl(c)) => Rejected(c, MissingUrlError(c))
        /\ Truthy(RawUrl(c)) /\ ~UrlOk(c) => Rejected(c, "Invalid URL format")
        /\ UrlOk(c) /\ ~FormatRecognized(c) => Rejected(c, "Invalid format")
        /\ UrlOk(c) /\ FormatRecognized(c) /\ ~SizePasses(c) => Rejected(c, "Invalid size")
        /\ UrlOk(c) /\ FormatRecognized(c) /\ SizePasses(c) => Accepted(c)

\* A request failing the last three checks at once is answered for the url.
C1_Witness ==
    \E c \in Conns :
        /\ Active(c) /\ Truthy(RawUrl(c)) /\ ~UrlOk(c)
        /\ ~FormatRecognized(c) /\ ~SizePasses(c)
        /\ Rejected(c, "Invalid URL format")

(***************************************************************************)
(* C2: with a valid url and a recognized format, on both endpoints, a size *)
(* below 100, above 1000 or a non-numeric string is answered 400 "Invalid  *)
(* size", and a size from 100 to 1000 (a number or a numeric string)       *)
(* passes the size check; an absent size is 200.                           *)
(***************************************************************************)
C2_SizeRule ==
    \A c \in Conns : Active(c) /\ UrlOk(c) /\ FormatRecognized(c) =>
        /\ ~SizeInRange(c) => Rejected(c, "Invalid size")
        /\ SizeInRange(c) => Accepted(c)
        /\ RawSize(c) = Undefined => Accepted(c) /\ call[c].options.width = Num(200)

(***************************************************************************)
(* C3: with a valid url, on both endpoints, a supplied format that is not  *)
(* exactly "png" or "svg" is answered 400 "Invalid format"; an absent      *)
(* format is "png"; no unrecognized format reaches the PNG renderer.       *)
(***************************************************************************)
C3_FormatRule ==
    \A c \in Conns : Active(c) /\ UrlOk(c) =>
        /\ RawFormat(c) \notin {Undefined, Str(png), Str(svg)} => Rejected(c, "Invalid format")
        /\ RawFormat(c) = Undefined =>
              /\ ~Rejected(c, "Invalid format")
              /\ Accepted(c) => call[c].op \in {"toDataURL", "toBuffer"}
        /\ Accepted(c) /\ call[c].op \in {"toDataURL", "toBuffer"} =>
              RawFormat(c) \in {Undefined, Str(png)}
        /\ Accepted(c) /\ call[c].op = "toString" => RawFormat(c) = Str(svg)

C3_Witness ==
    \E c \in Conns :
        /\ Active(c) /\ UrlOk(c)
        /\ RawFormat(c) = Str(<<"P", "N", "G">>)
        /\ Rejected(c, "Invalid format")


\* The text starts with a scheme: a letter, then letters, digits, + - .,
\* then ":".
HasScheme(text) ==
    \E i \in 2..Len(text) :
        /\ text[i] = ":"
        /\ text[1] \in Alpha
        /\ \A j \in 1..(i - 1) : text[j] \in SchemeChars

SchemeOf(text) == ToLowerCase(Take(Trim(text), FirstIn(Trim(text), {":"}) - 1))

\* What follows the scheme is empty or an opaque path (it starts with no "/").
OpaqueOrEmptyPath(text) ==
    LET rest == Drop(Trim(text), FirstIn(Trim(text), {":"}))
    IN  rest = <<>> \/ rest[1] # "/"

HasSchemeAndHost(v) == v.t = "str" /\ HasScheme(Trim(v.s)) /\ ParseURL(v.s).hasHost

(***************************************************************************)
(* C4 as stated: a non-empty url passes the url check only if it has both  *)
(* a scheme and a host; every other non-empty value is answered 400        *)
(* "Invalid URL format".                                                   *)
(***************************************************************************)
C4_SchemeAndHostRequired ==
    \A c \in Conns : Active(c) /\ Truthy(RawUrl(c)) =>
        /\ ~Rejected(c, "Invalid URL format") => HasSchemeAndHost(RawUrl(c))
        /\ ~HasSchemeAndHost(RawUrl(c)) => Rejected(c, "Invalid URL format")

(***************************************************************************)
(* C4 amended: a non-empty url passes the url check only if it is an       *)
(* absolute URL, that is, it has a scheme, and a host is required only     *)
(* for the special schemes http, https, ftp, ws and wss.  A non-empty      *)
(* value without a scheme, or with a special scheme and no host, is        *)
(* answered 400 "Invalid URL format"; a scheme-only or opaque-path URL of  *)
(* another scheme (web+qrcode:, mailto:a@b) passes.                        *)
(***************************************************************************)
C4_SchemeRequired ==
    \A c \in Conns : Active(c) /\ Truthy(RawUrl(c)) =>
        LET u == RawUrl(c)
            absolute == u.t = "str" /\ HasScheme(Trim(u.s))
            special == absolute /\ SchemeOf(u.s) \in SpecialSchemes
        IN  /\ ~Rejected(c, "Invalid URL format") =>
                  absolute /\ (special => ParseURL(u.s).hasHost)
            /\ ~absolute => Rejected(c, "Invalid URL format")
            /\ special /\ ~ParseURL(u.s).hasHost => Rejected(c, "Invalid URL format")
            /\ absolute /\ ~special /\ OpaqueOrEmptyPath(u.s) =>
                  ~Rejected(c, "Invalid URL format")

\* A URL with a scheme and no host passed the url check and reached the renderer.
C4_Witness ==
    \E c \in Conns :
        /\ Accepted(c)
        /\ RawUrl(c) = Str(<<"m", "a", "i", "l", "t", "o", ":", "a", "@", "b">>)
        /\ ~ParseURL(RawUrl(c).s).hasHost

(***************************************************************************)
(* C5: on both endpoints the renderer receives the background "#FFFFFF00"  *)
(* if and only if the raw transparency input is the string "true" or the   *)
(* boolean true, and "#FFFFFF" for every other value.                      *)
(***************************************************************************)
C5_TransparencyRule ==
    \A c \in Conns : Accepted(c) =>
        /\ RawTransparent(c) \in {Str(TrueText), Bool(TRUE)} => call[c].options.light = "#FFFFFF00"
        /\ RawTransparent(c) \notin {Str(TrueText), Bool(TRUE)} => call[c].options.light = "#FFFFFF"

RenderFailed(c) == log[c] # None

(***************************************************************************)
(* C6: when the renderer fails, for either endpoint and format, the        *)
(* response is 500 with exactly the body {error: "Internal server error",  *)
(* message: "Failed to generate QR code"}: the cause goes to the log only, *)
(* no success Content-Type or body is sent, a validation failure is never  *)
(* a 500 and a render failure never a 400.                                 *)
(***************************************************************************)
C6_RenderFailureIs500 ==
    \A c \in Conns : Answered(c) =>
        /\ RenderFailed(c) =>
              /\ res[c] = [status |-> 500, ctype |-> "application/json",
                           body |-> [error |-> "Internal server error",
                                     message |-> "Failed to generate QR code"]]
              /\ log[c].error \in RenderErrors
              /\ writes[c] = 1
        /\ res[c].status = 500 => RenderFailed(c) /\ calls[c] = 1
        /\ calls[c] = 0 => res[c].status = 400 /\ ~RenderFailed(c)

C6_Witness ==
    \E c \in Conns :
        /\ Answered(c) /\ RenderFailed(c)
        /\ call[c].op = "toString"
        /\ res[c].status = 500


RasterSuccess(c) ==
    /\ Answered(c) /\ IsPost(c) /\ res[c].status = 200
    /\ call[c].op = "toDataURL"

(***************************************************************************)
(* C7: every successful raster response of POST /generate-qr is 200 JSON   *)
(* with success true, url the raw url of the request, format "png", size   *)
(* the validated size as a number (200 when absent), transparentBackground *)
(* the normalized boolean (false when absent) and qrCode the data URI the  *)
(* renderer returned for that url.                                         *)
(***************************************************************************)
C7_RasterResponse ==
    \A c \in Conns : RasterSuccess(c) =>
        /\ res[c].ctype = "application/json"
        /\ res[c].body.success = TRUE
        /\ res[c].body.url = RawUrl(c)
        /\ res[c].body.format = Str(png)
        /\ res[c].body.size = SizeValue(c)
        /\ res[c].body.transparentBackground = Bool(RawTransparent(c) \in {Str(TrueText), Bool(TRUE)})
        /\ res[c].body.qrCode = Rendered(call[c])
        /\ call[c].text = RawUrl(c)

ValidatedFormat(c) == IF RawFormat(c) = Undefined THEN Str(png) ELSE RawFormat(c)

C9_RendererArguments ==
    \A c \in Conns :
        /\ calls[c] <= 1
        /\ Active(c) /\ Answered(c) /\ res[c].status = 400 => calls[c] = 0
        /\ Accepted(c) =>
              /\ UrlOk(c) /\ FormatRecognized(c)
              /\ call[c].text = RawUrl(c)
              /\ call[c].op \in {"toString", "toDataURL", "toBuffer"}
              /\ IsInteger(call[c].options.width)
              /\ call[c].options.width.num >= MinSize
              /\ call[c].options.width.num <= MaxSize
              /\ call[c].options.margin = 2
              /\ call[c].options.dark = "#000000"

ErrorKind(response) ==
    CASE response \in {PostMissingUrlResponse, GetMissingUrlResponse} -> "MissingTarget"
      [] response = InvalidUrlResponse -> "InvalidTarget"
      [] response = InvalidFormatResponse -> "InvalidFormat"
      [] response = InvalidSizeResponse -> "InvalidSize"

\* The verdict of a handler's first step: the error kind, or the width rendered.
Verdict(step) ==
    IF step.kind = "reply" THEN [verdict |-> ErrorKind(step.res)]
    ELSE [verdict |-> "accept", width |-> step.call.options.width]

\* The verdict the request on c got.
VerdictOf(c) ==
    IF Accepted(c) THEN [verdict |-> "accept", width |-> call[c].options.width]
    ELSE [verdict |-> ErrorKind(res[c])]

\* The same raw fields sent to the other endpoint.
OnOtherEndpoint(c) ==
    IF IsPost(c)
    THEN GetHandler([url |-> RawUrl(c), format |-> RawFormat(c), size |-> RawSize(c),
                     transparent |-> Undefined])
    ELSE PostHandler([url |-> RawUrl(c), format |-> RawFormat(c), size |-> RawSize(c),
                      transparentBackground |-> Undefined])

TextOrAbsent(v) == v.t \in {"str", "undef"}

(***************************************************************************)
(* C10: the two endpoints validate identically: for every raw url, format  *)
(* and size, the size presented as the same text, both accept or both      *)
(* reject with the same error kind, and when they accept they pass the     *)
(* same width to the renderer.                                             *)
(***************************************************************************)
C10_SameValidation ==
    \A c \in Conns :
        Active(c) /\ TextOrAbsent(RawUrl(c)) /\ TextOrAbsent(RawFormat(c))
                  /\ TextOrAbsent(RawSize(c)) =>
            VerdictOf(c) = Verdict(OnOtherEndpoint(c))


\* The response written is a complete success payload.
CompleteSuccess(c) ==
    /\ res[c].status = 200
    /\ \/ /\ res[c].ctype = "application/json"
          /\ res[c].body.success = TRUE
          /\ res[c].body.qrCode = Rendered(call[c])
       \/ /\ res[c].ctype \in {"image/png", "image/svg+xml"}
          /\ res[c].body = Rendered(call[c])

\* The response written is an error object and nothing else.
ErrorObject(c) ==
    /\ res[c].status \in {400, 500}
    /\ res[c].ctype = "application/json"
    /\ DOMAIN res[c].body = {"error", "message"}

\* What has been written for the request on c, at each point of its handler.
OneResponse(c) ==
    /\ writes[c] <= 1
    /\ pc[c] = "idle" => writes[c] = 0 /\ res[c] = None
    /\ pc[c] = "awaiting" => writes[c] = 0 /\ res[c] = None /\ calls[c] = 1
    /\ pc[c] = "done" =>
          /\ writes[c] = 1
          /\ CompleteSuccess(c) \/ ErrorObject(c)
          /\ CompleteSuccess(c) => calls[c] = 1 /\ log[c] = None

(***************************************************************************)
(* C11: given that a renderer call always returns or fails, every request  *)
(* to POST /generate-qr or GET /qr eventually receives exactly one         *)
(* response, a complete success (200 with the full payload) or an error    *)
(* object (400 or 500): no path writes twice, writes an error after a      *)
(* success, or ends the handler without responding, also when several      *)
(* requests are in flight and interleave at the await.                     *)
(***************************************************************************)
C11_ExactlyOneResponse ==
    /\ [](\A c \in Conns : OneResponse(c))
    /\ \A c \in Conns : (Active(c) ~> Answered(c))

\* One request has been answered after its await while another request,
\* which arrived in between, is still waiting for the renderer.
C11_Witness ==
    \E c, d \in Conns :
        /\ c # d
        /\ Answered(c) /\ calls[c] = 1 /\ writes[c] = 1
        /\ pc[d] = "awaiting"

====
